---- MODULE Spec2Model ----
(***************************************************************************)
(* The insights middleware of instantsearch.js                             *)
(* (src/packages/instantsearch.js/src/middlewares/createInsightsMiddleware.ts) *)
(* as a state machine: the middleware's closure variables, the search      *)
(* session ("helper") it writes to, the hosting instance's                 *)
(* sendEventToInsights slot, and the analytics client it talks to.         *)
(*                                                                         *)
(* JavaScript is single-threaded: every handler (the factory call,         *)
(* started(), unsubscribe(), one event, one user call of the analytics     *)
(* client, the load of the search-insights script) runs to completion, so  *)
(* each is one action.  A handler is a sequence of statements over several *)
(* objects; it is written here as a chain of operators over a "world"      *)
(* record w that holds those objects, and the action commits the last one. *)
(***************************************************************************)
EXTENDS Integers, Sequences, FiniteSets, TLC

VARIABLES
  cfg,       \* the props given to createInsightsMiddleware, and the page's setup
  phase,     \* "new" | "pre" | "constructed" | "started" | "unsubscribed" | "failed"
  client,    \* the analytics client (search-insights): loaded, queue, userToken, listener
  cookie,    \* the anonymous token persisted by the analytics client (_ALGOLIA cookie)
  mw,        \* the middleware's closure variables
  session,   \* helper.state: userToken, clickAnalytics, and the user's query
  instance,  \* instantSearchInstance: the sendEventToInsights slot
  eff,       \* what the last handler did (its observable effects)
  hist       \* counters over the whole run, the session before the last started()
             \* and before the current activation, and what the last started() did

vars == <<cfg, phase, client, cookie, mw, session, instance, eff, hist>>

----------------------------------------------------------------------------
(* Bounds *)

\* started() and unsubscribe() calls in one run
MaxLifecycle == 3
\* calls the page (user code, widgets) makes to the snippet before the script loads
MaxPushes == 1

----------------------------------------------------------------------------
(* Values *)

\* JavaScript's undefined
Undef == "undefined"
\* tokens the page sets explicitly with aa('setUserToken', t)
UserTokens == {"a", "b"}
\* the anonymous token search-insights creates and persists
Anon == "anonymous-1"
\* userToken values a session may hold before the middleware starts
SessionTokens == {Undef, "u0"}
\* clickAnalytics values a session may hold before the middleware starts
ClickValues == {Undef, "false", "true"}
\* the query of a session: a parameter that belongs to the user
Queries == {"", "shoes"}
\* insightsMethod of an event (absent, or an analytics method), and payloads
InsightsMethods == {Undef, "clickedObjectIDs"}
Payloads == {"p1"}
Events == [insightsMethod : InsightsMethods, payload : Payloads]

\* JavaScript truthiness of a string-or-undefined value
Truthy(v) == v \notin {Undef, ""}

\* One call of the analytics client: [method, arg]
Call(method, arg) == [method |-> method, arg |-> arg]

\* The record of a handler that has done nothing yet: op is the handler, arg its
\* input (an event, a token), queueBefore is aa.queue as the factory found it
NoEffects(op, arg, w) ==
  [op |-> op, arg |-> arg, searches |-> 0, notified |-> 0, calls |-> <<>>,
   warnings |-> <<>>, handled |-> <<>>, error |-> "none",
   queueBefore |-> IF op = "construct" THEN w.client.queue ELSE <<>>]

World ==
  [client |-> client, cookie |-> cookie, mw |-> mw, session |-> session,
   instance |-> instance, eff |-> eff]

\* the world as a handler finds it
Enter(op, arg) == [World EXCEPT !.eff = NoEffects(op, arg, World)]

\* aa.queue is read by the factory (the scan of the queue) and by the script when
\* it loads, and by nothing else: once the middleware exists and the script has
\* loaded, its entries can no longer influence anything and are not kept in the
\* state (the array itself keeps them)
Settled(c) ==
  IF c.loaded /\ phase \notin {"new", "pre"} THEN [c EXCEPT !.queue = <<>>] ELSE c

\* a started() now would end the sequence started(), unsubscribe(), started(),
\* nothing but unsubscribe() having run since the first (hist.lastStarted)
Replay == phase = "unsubscribed" /\ hist.replayable

\* hist.lastStarted when no started() is on record
NoStarted == [effects |-> "none", session |-> "none", sendEventToInsights |-> "none"]

Commit(w) ==
  /\ client' = Settled(w.client)
  /\ cookie' = w.cookie
  /\ mw' = w.mw
  /\ session' = w.session
  /\ instance' = w.instance
  /\ eff' = w.eff
  /\ hist' = [hist EXCEPT
       !.notifications = @ + w.eff.notified,
       !.pushes = IF w.eff.op \in {"setUserToken", "other", "event", "staleEvent"}
                     /\ Len(w.client.queue) > Len(client.queue)
                  THEN @ + 1 ELSE @,
       !.activations = IF w.eff.op = "started" THEN @ + 1 ELSE @,
       !.teardowns = IF w.eff.op = "unsubscribe" THEN @ + 1 ELSE @,
       !.beforeStarted = IF w.eff.op = "started" THEN session ELSE @,
       !.beforeActivation =
          IF w.eff.op = "started" /\ phase # "started" THEN session ELSE @,
       !.replayable =
          IF w.eff.op = "started" THEN phase # "started"
          ELSE IF w.eff.op = "unsubscribe" THEN @
          ELSE FALSE,
       !.replayed = w.eff.op = "started" /\ Replay,
       !.lastStarted =
          IF w.eff.op = "started" /\ Replay THEN @
          ELSE IF w.eff.op = "started" /\ phase # "started"
            THEN [effects |-> w.eff, session |-> w.session,
                  sendEventToInsights |-> w.instance.sendEventToInsights]
          ELSE IF w.eff.op = "unsubscribe" /\ hist.replayable THEN @
          ELSE NoStarted]

----------------------------------------------------------------------------
(* The search session (algoliasearch-helper) and the hosting instance *)

\* instantSearchInstance.scheduleSearch(): one request for a new search
scheduleSearch(w) == [w EXCEPT !.eff.searches = @ + 1]

\* helper.overrideStateWithoutTriggeringChangeEvent(newState): no 'change' event
overrideStateWithoutTriggeringChangeEvent(w, newState) ==
  [w EXCEPT !.session = newState]

\* helper.setState(newState): writes the state and emits one 'change' event
setState(w, newState) ==
  [w EXCEPT !.session = newState, !.eff.notified = @ + 1]

\* throw new Error(message): the handler ends here with that error
throw(w, message) == [w EXCEPT !.eff.error = message]

\* warning(false, message): one warning reported
warning(w, message) == [w EXCEPT !.eff.warnings = Append(@, message)]

\* getInsightsAnonymousUserTokenInternal(): the persisted anonymous token, if any
getInsightsAnonymousUserTokenInternal(w) == w.cookie

----------------------------------------------------------------------------
(* The middleware's callbacks *)

\* as setUserTokenToSearch, without scheduleSearch()
setUserTokenToSearch_noSearch(w, userToken) ==
  overrideStateWithoutTriggeringChangeEvent(
    w, [w.session EXCEPT !.userToken = userToken])

\* as setUserTokenToSearch, writing through helper.setState
setUserTokenToSearch_notifying(w, userToken) ==
  scheduleSearch(setState(w, [w.session EXCEPT !.userToken = userToken]))

\* const setUserTokenToSearch = (userToken?: string) => { ... }
setUserTokenToSearch(w, userToken) ==
  scheduleSearch(
    overrideStateWithoutTriggeringChangeEvent(
      w, [w.session EXCEPT !.userToken = userToken]))

\* the callback given to 'getUserToken': (_error, userToken) => { ... }
getUserTokenCallback(w, userToken) ==
  [w EXCEPT !.mw.userTokenBeforeInit = userToken]

----------------------------------------------------------------------------
(* The analytics client (search-insights), as the middleware's comments and *)
(* the interface describe it.  A call made before the script has loaded is *)
(* stored in aa.queue; the script processes the queue in order when it     *)
(* loads, and from then on every call is executed at once.                 *)

\* search-insights setUserToken: store the token, tell the listener
clientSetUserToken(w, userToken) ==
  LET w1 == [w EXCEPT !.client.userToken = userToken]
  IN  IF w1.client.listener THEN setUserTokenToSearch(w1, userToken) ELSE w1

\* search-insights init: without appId and apiKey it throws; with cookies on,
\* it (re)establishes the anonymous token
clientInit(w) ==
  IF ~cfg.credentials
    THEN throw(w, "search-insights: init needs appId and apiKey")
  ELSE IF cfg.useCookie
    THEN clientSetUserToken([w EXCEPT !.cookie = Anon], Anon)
  ELSE w

\* search-insights onUserTokenChange(callback, {immediate: true})
clientOnUserTokenChange(w, callback) ==
  LET w1 == [w EXCEPT !.client.listener = (callback # Undef)]
  IN  IF callback # Undef
        THEN setUserTokenToSearch(w1, w1.client.userToken)
        ELSE w1

\* the loaded client executes one call
Process(w, call) ==
  CASE call.method = "setUserToken" -> clientSetUserToken(w, call.arg)
    [] call.method = "getUserToken" -> getUserTokenCallback(w, w.client.userToken)
    [] call.method = "init" -> clientInit(w)
    [] call.method = "onUserTokenChange" -> clientOnUserTokenChange(w, call.arg)
    [] OTHER -> w

\* the snippet's function aa(...): push to the queue until the script has loaded
snippet(w, call) ==
  IF w.client.loaded
    THEN Process(w, call)
    ELSE [w EXCEPT !.client.queue = Append(@, call)]

\* the analytics client the page holds: the imported client, or the snippet's aa
aa(w, call) ==
  IF cfg.insightsClient = "snippet" THEN snippet(w, call) ELSE Process(w, call)

\* noop: the client substituted for insightsClient: null
noop(w) == w

\* const insightsClient = _insightsClient === null ? noop : _insightsClient
\* (eff.calls lists the calls the middleware makes through it)
insightsClient(w, method, arg) ==
  LET w1 == [w EXCEPT !.eff.calls = Append(@, Call(method, arg))]
  IN  IF cfg.insightsClient = "null" THEN noop(w1) ELSE aa(w1, Call(method, arg))

\* const hasInsightsClient = Boolean(_insightsClient)
hasInsightsClient == cfg.insightsClient \notin {"null", "undefined"}

\* the script processes aa.queue in order, until a call throws
RECURSIVE ProcessQueue(_, _)
ProcessQueue(w, queue) ==
  IF queue = <<>> \/ w.eff.error # "none" THEN w
  ELSE ProcessQueue(Process(w, Head(queue)), Tail(queue))

----------------------------------------------------------------------------
(* createInsightsMiddleware(props): the checks of the props *)

\* as clientRequired, requiring nothing
clientRequired_never == FALSE

\* _insightsClient !== null && !_insightsClient
\* (no props at all is props || {}: insightsClient undefined)
clientRequired == cfg.insightsClient = "undefined"

Create ==
  /\ phase = "new"
  /\ LET w0 == Enter("create", Undef)
         w == IF clientRequired
                THEN throw(w0, "The insightsClient option is required")
                ELSE w0
     IN  /\ Commit(w)
         /\ phase' = IF w.eff.error = "none" THEN "pre" ELSE "failed"
  /\ UNCHANGED cfg

----------------------------------------------------------------------------
(* createInsightsMiddleware: the factory's inner function *)

\* as credentialsRejected, in no build
credentialsRejected_never == FALSE

\* const [appId, apiKey] = getAppIdAndApiKey(instantSearchInstance.client);
\* __DEV__ && !(appId && apiKey)
credentialsRejected == cfg.dev /\ ~cfg.credentials

\* Array.prototype.slice(): a copy
slice(queue) == queue

\* Array.prototype.reverse()
reverse(queue) == [i \in 1..Len(queue) |-> queue[Len(queue) + 1 - i]]

\* find(items, ([method]) => method === 'setUserToken') || []:
\* the first such item, or an empty array (every element of which is undefined)
find(items) ==
  LET hits == {i \in 1..Len(items) : items[i].method = "setUserToken"}
  IN  IF hits = {} THEN Call(Undef, Undef)
      ELSE items[CHOOSE i \in hits : \A j \in hits : i <= j]

\* as queueScan, without reverse(): the oldest 'setUserToken' entry
queueScan_oldest(queue) ==
  [queue |-> queue, queuedUserToken |-> find(slice(queue)).arg]

\* [, queuedUserToken] = find(insightsClient.queue.slice().reverse(), ...) || []
\* queue: insightsClient.queue after the statement
queueScan(queue) ==
  [queue |-> queue, queuedUserToken |-> find(reverse(slice(queue))).arg]

\* Array.isArray(insightsClient.queue)
hasQueue == cfg.insightsClient = "snippet"

\* ({ instantSearchInstance }) => { ... return { ... } }
Construct ==
  /\ phase = "pre"
  /\ LET w0 == Enter("construct", Undef)
         scan == IF hasQueue THEN queueScan(w0.client.queue)
                 ELSE [queue |-> w0.client.queue, queuedUserToken |-> Undef]
         w1 == [w0 EXCEPT !.client.queue = scan.queue,
                          !.mw.queuedUserToken = scan.queuedUserToken]
         w2 == insightsClient(w1, "getUserToken", "callback")
         w3 == insightsClient(w2, "init", Undef)
         w == IF credentialsRejected
                THEN throw(w0, "could not extract Algolia credentials from searchClient")
                ELSE w3
     IN  /\ Commit(w)
         /\ phase' = IF w.eff.error = "none" THEN "constructed" ELSE "failed"
  /\ UNCHANGED cfg

----------------------------------------------------------------------------
(* started() *)

\* as sendEventToInsights, without the test of the session's userToken
sendEventToInsights_noTokenTest(w, event) ==
  IF cfg.onEvent
    THEN [w EXCEPT !.eff.handled =
            Append(@, [event |-> event, insightsClient |-> cfg.insightsClient])]
  ELSE IF Truthy(event.insightsMethod)
    THEN insightsClient(w, event.insightsMethod, event.payload)
  ELSE warning(w, "insightsMethod is missing")

\* as sendEventToInsights, handing onEvent the substituted client (noop for null)
sendEventToInsights_substituted(w, event) ==
  IF cfg.onEvent
    THEN [w EXCEPT !.eff.handled =
            Append(@, [event |-> event,
                       insightsClient |-> IF cfg.insightsClient = "null" THEN "noop"
                                          ELSE cfg.insightsClient])]
  ELSE IF Truthy(event.insightsMethod)
    THEN IF Truthy(w.session.userToken)
           THEN insightsClient(w, event.insightsMethod, event.payload)
           ELSE warning(w, "userToken is not set")
  ELSE warning(w, "insightsMethod is missing")

\* the dispatch gateway: (event: InsightsEvent) => { ... }
\* (onEvent is handed _insightsClient, the client as the props gave it)
sendEventToInsights(w, event) ==
  IF cfg.onEvent
    THEN [w EXCEPT !.eff.handled =
            Append(@, [event |-> event, insightsClient |-> cfg.insightsClient])]
  ELSE IF Truthy(event.insightsMethod)
    THEN IF Truthy(w.session.userToken)
           THEN insightsClient(w, event.insightsMethod, event.payload)
           ELSE warning(w, "userToken is not set")
  ELSE warning(w, "insightsMethod is missing")

\* helper = ...; initialParameters = { userToken, clickAnalytics };
\* clickAnalytics: true; scheduleSearch()
captureAndEnable(w) ==
  LET w1 == [w EXCEPT !.mw.helper = TRUE,
                      !.mw.initialParameters =
                         [set |-> TRUE,
                          userToken |-> w.session.userToken,
                          clickAnalytics |-> w.session.clickAnalytics]]
  IN  scheduleSearch(
        overrideStateWithoutTriggeringChangeEvent(
          w1, [w1.session EXCEPT !.clickAnalytics = "true"]))

\* as applyAnonymousUserToken, without the test of hasInsightsClient
applyAnonymousUserToken_anyClient(w) ==
  LET anonymousUserToken == getInsightsAnonymousUserTokenInternal(w)
  IN  IF Truthy(anonymousUserToken)
        THEN setUserTokenToSearch(w, anonymousUserToken)
        ELSE w

\* if (hasInsightsClient && anonymousUserToken) setUserTokenToSearch(anonymousUserToken)
applyAnonymousUserToken(w) ==
  LET anonymousUserToken == getInsightsAnonymousUserTokenInternal(w)
  IN  IF hasInsightsClient /\ Truthy(anonymousUserToken)
        THEN setUserTokenToSearch(w, anonymousUserToken)
        ELSE w

\* as applyExplicitUserToken, applying nothing
applyExplicitUserToken_none(w) == w

\* as applyExplicitUserToken, without the queue's token
applyExplicitUserToken_initOnly(w) ==
  IF Truthy(w.mw.userTokenBeforeInit)
    THEN insightsClient(w, "setUserToken", w.mw.userTokenBeforeInit)
    ELSE w

\* as applyExplicitUserToken, with the queue's token tried first
applyExplicitUserToken_queueFirst(w) ==
  IF Truthy(w.mw.queuedUserToken)
    THEN insightsClient(w, "setUserToken", w.mw.queuedUserToken)
  ELSE IF Truthy(w.mw.userTokenBeforeInit)
    THEN insightsClient(w, "setUserToken", w.mw.userTokenBeforeInit)
  ELSE w

\* if (userTokenBeforeInit) ... else if (queuedUserToken) ...
applyExplicitUserToken(w) ==
  IF Truthy(w.mw.userTokenBeforeInit)
    THEN insightsClient(w, "setUserToken", w.mw.userTokenBeforeInit)
  ELSE IF Truthy(w.mw.queuedUserToken)
    THEN insightsClient(w, "setUserToken", w.mw.queuedUserToken)
  ELSE w

\* as registerListener, registering nothing
registerListener_none(w) == w

\* insightsClient('onUserTokenChange', setUserTokenToSearch, { immediate: true })
registerListener(w) ==
  insightsClient(w, "onUserTokenChange", "setUserTokenToSearch")

\* instantSearchInstance.sendEventToInsights = (event) => { ... }
installGateway(w) == [w EXCEPT !.instance.sendEventToInsights = "gateway"]

\* the body of started()
started(w) ==
  installGateway(
    registerListener(
      applyExplicitUserToken(
        applyAnonymousUserToken(
          captureAndEnable(
            insightsClient(w, "addAlgoliaAgent", "insights-middleware"))))))

Started ==
  /\ phase \in {"constructed", "started", "unsubscribed"}
  /\ hist.activations + hist.teardowns < MaxLifecycle
  /\ Commit(started(Enter("started", Undef)))
  /\ phase' = "started"
  /\ UNCHANGED cfg

----------------------------------------------------------------------------
(* unsubscribe() *)

\* as unsubscribe, writing the snapshot alone as the new state
unsubscribe_rollsBack(w) ==
  LET w1 == insightsClient(w, "onUserTokenChange", Undef)
      w2 == [w1 EXCEPT !.instance.sendEventToInsights = "noop"]
  IN  IF w2.mw.helper /\ w2.mw.initialParameters.set
        THEN scheduleSearch(
               setState(w2, [userToken |-> w2.mw.initialParameters.userToken,
                             clickAnalytics |-> w2.mw.initialParameters.clickAnalytics,
                             query |-> ""]))
        ELSE w2

\* as unsubscribe, leaving the listener registered
unsubscribe_keepsListener(w) ==
  LET w2 == [w EXCEPT !.instance.sendEventToInsights = "noop"]
  IN  IF w2.mw.helper /\ w2.mw.initialParameters.set
        THEN scheduleSearch(
               setState(w2, [w2.session EXCEPT
                 !.userToken = w2.mw.initialParameters.userToken,
                 !.clickAnalytics = w2.mw.initialParameters.clickAnalytics]))
        ELSE w2

\* as unsubscribe, leaving the gateway in the slot
unsubscribe_keepsGateway(w) ==
  LET w2 == insightsClient(w, "onUserTokenChange", Undef)
  IN  IF w2.mw.helper /\ w2.mw.initialParameters.set
        THEN scheduleSearch(
               setState(w2, [w2.session EXCEPT
                 !.userToken = w2.mw.initialParameters.userToken,
                 !.clickAnalytics = w2.mw.initialParameters.clickAnalytics]))
        ELSE w2

\* as unsubscribe, restoring clickAnalytics alone
unsubscribe_keepsToken(w) ==
  LET w1 == insightsClient(w, "onUserTokenChange", Undef)
      w2 == [w1 EXCEPT !.instance.sendEventToInsights = "noop"]
  IN  IF w2.mw.helper /\ w2.mw.initialParameters.set
        THEN scheduleSearch(
               setState(w2, [w2.session EXCEPT
                 !.clickAnalytics = w2.mw.initialParameters.clickAnalytics]))
        ELSE w2

\* the body of unsubscribe()
unsubscribe(w) ==
  LET w1 == insightsClient(w, "onUserTokenChange", Undef)
      w2 == [w1 EXCEPT !.instance.sendEventToInsights = "noop"]
  IN  IF w2.mw.helper /\ w2.mw.initialParameters.set
        THEN scheduleSearch(
               setState(w2, [w2.session EXCEPT
                 !.userToken = w2.mw.initialParameters.userToken,
                 !.clickAnalytics = w2.mw.initialParameters.clickAnalytics]))
        ELSE w2

Unsubscribe ==
  /\ phase \in {"constructed", "started", "unsubscribed"}
  /\ hist.activations + hist.teardowns < MaxLifecycle
  /\ Commit(unsubscribe(Enter("unsubscribe", Undef)))
  /\ phase' = "unsubscribed"
  /\ UNCHANGED cfg

----------------------------------------------------------------------------
(* The page: user code, widgets, and the load of the search-insights script *)

\* a call of aa that the unloaded snippet would have to store
Buffers == cfg.insightsClient = "snippet" /\ ~client.loaded

\* the page calls aa('setUserToken', t)
SetUserToken(t) ==
  /\ hasInsightsClient
  /\ Buffers => hist.pushes < MaxPushes
  /\ Commit(aa(Enter("setUserToken", t), Call("setUserToken", t)))
  /\ UNCHANGED <<cfg, phase>>

\* the page makes another call of aa before the script has loaded
OtherCall ==
  /\ Buffers
  /\ hist.pushes < MaxPushes
  /\ Commit(aa(Enter("other", Undef), Call("other", Undef)))
  /\ UNCHANGED <<cfg, phase>>

\* the search-insights script loads and processes aa.queue; when a call of the
\* queue throws, the script has failed and the snippet goes on storing calls
Load ==
  /\ Buffers
  /\ ~client.crashed
  /\ LET w0 == [Enter("load", Undef) EXCEPT !.client.loaded = TRUE]
         w1 == ProcessQueue(w0, w0.client.queue)
     IN  Commit(IF w1.eff.error = "none" THEN w1
                ELSE [w1 EXCEPT !.client.loaded = FALSE, !.client.crashed = TRUE])
  /\ UNCHANGED <<cfg, phase>>

\* a widget calls instantSearchInstance.sendEventToInsights(event)
SendEvent(event) ==
  /\ phase \in {"constructed", "started", "unsubscribed"}
  /\ Buffers => hist.pushes < MaxPushes
  /\ LET w0 == Enter("event", event)
     IN  Commit(IF instance.sendEventToInsights = "gateway"
                  THEN sendEventToInsights(w0, event)
                  ELSE noop(w0))
  /\ UNCHANGED <<cfg, phase>>

----------------------------------------------------------------------------

\* every way to set the middleware up: the props, the build (__DEV__) and
\* whether the search client gives its appId and apiKey
AllConfigs ==
  {c \in [insightsClient : {"undefined", "null", "direct", "snippet"},
          onEvent : BOOLEAN, useCookie : BOOLEAN,
          dev : BOOLEAN, credentials : BOOLEAN] :
     c.insightsClient \in {"undefined", "null"} => ~c.useCookie}

\* the setups createInsightsMiddleware and its inner function accept
Configs ==
  {c \in AllConfigs : c.insightsClient # "undefined" /\ c.dev /\ c.credentials}

\* nothing has run yet
Untouched ==
  /\ client = [loaded |-> cfg.insightsClient \in {"direct", "undefined"},
               queue |-> <<>>, userToken |-> Undef, listener |-> FALSE,
               crashed |-> FALSE]
  /\ mw = [queuedUserToken |-> Undef, userTokenBeforeInit |-> Undef,
           helper |-> FALSE,
           initialParameters |->
             [set |-> FALSE, userToken |-> Undef, clickAnalytics |-> Undef]]
  /\ instance = [sendEventToInsights |-> "noop"]
  /\ eff = [op |-> "none", arg |-> Undef, searches |-> 0, notified |-> 0,
            calls |-> <<>>, warnings |-> <<>>, handled |-> <<>>, error |-> "none",
            queueBefore |-> <<>>]
  /\ hist = [activations |-> 0, teardowns |-> 0, pushes |-> 0, notifications |-> 0,
             beforeStarted |-> session, beforeActivation |-> session,
             replayable |-> FALSE, replayed |-> FALSE,
             lastStarted |-> NoStarted]

\* the middleware has been created with props it accepts
Init ==
  /\ cfg \in Configs
  /\ phase = "pre"
  /\ cookie \in {Undef, Anon}
  /\ session \in [userToken : SessionTokens, clickAnalytics : ClickValues,
                   query : {""}]
  /\ Untouched

Next ==
  \/ Construct
  \/ Started
  \/ Unsubscribe
  \/ \E t \in UserTokens : SetUserToken(t)
  \/ OtherCall
  \/ Load
  \/ \E event \in Events : SendEvent(event)

Spec == Init /\ [][Next]_vars

----------------------------------------------------------------------------
(* The pre-load queue alone: every queue of up to MaxQueueLen calls of the  *)
(* page, the script loading before or after the factory runs               *)

\* entries the page pushes before the script has loaded
MaxQueueLen == 3

PageCalls ==
  {Call("setUserToken", t) : t \in UserTokens} \cup {Call("other", Undef)}

PageQueues == UNION {[1..n -> PageCalls] : n \in 0..MaxQueueLen}

ScanInit ==
  /\ cfg \in {c \in Configs : ~c.onEvent}
  /\ phase = "pre"
  /\ client \in {[loaded |-> cfg.insightsClient = "direct", queue |-> q,
                  userToken |-> Undef, listener |-> FALSE, crashed |-> FALSE] :
                   q \in IF cfg.insightsClient = "snippet" THEN PageQueues ELSE {<<>>}}
  /\ cookie = Undef
  /\ mw = [queuedUserToken |-> Undef, userTokenBeforeInit |-> Undef,
           helper |-> FALSE,
           initialParameters |->
             [set |-> FALSE, userToken |-> Undef, clickAnalytics |-> Undef]]
  /\ session = [userToken |-> Undef, clickAnalytics |-> Undef, query |-> ""]
  /\ instance = [sendEventToInsights |-> "noop"]
  /\ eff = [op |-> "none", arg |-> Undef, searches |-> 0, notified |-> 0,
            calls |-> <<>>, warnings |-> <<>>, handled |-> <<>>, error |-> "none",
            queueBefore |-> <<>>]
  /\ hist = [activations |-> 0, teardowns |-> 0, pushes |-> 0, notifications |-> 0,
             beforeStarted |-> session, beforeActivation |-> session,
             replayable |-> FALSE, replayed |-> FALSE,
             lastStarted |-> NoStarted]

ScanNext ==
  \/ Load
  \/ Construct

ScanSpec == ScanInit /\ [][ScanNext]_vars

----------------------------------------------------------------------------
(* Setting the middleware up: every props, build and search client, from    *)
(* the call of createInsightsMiddleware on                                  *)

SetupInit ==
  /\ cfg \in AllConfigs
  /\ phase = "new"
  /\ cookie \in {Undef, Anon}
  /\ session = [userToken |-> "u0", clickAnalytics |-> "false", query |-> ""]
  /\ Untouched

SetupNext ==
  \/ Create
  \/ Next

SetupSpec == SetupInit /\ [][SetupNext]_vars

----------------------------------------------------------------------------
(* The widgets and the user beside the middleware: the user changes the     *)
(* query, a widget keeps the gateway it read from the slot and calls it     *)
(* after unsubscribe()                                                      *)

\* the user types a query: helper.setQuery(q), a write that is not the middleware's
SetQuery(q) ==
  /\ phase \in {"constructed", "started", "unsubscribed"}
  /\ session.query # q
  /\ LET w0 == Enter("setQuery", q)
     IN  Commit([w0 EXCEPT !.session.query = q])
  /\ UNCHANGED <<cfg, phase>>

\* a widget calls the gateway it read from instantSearchInstance.sendEventToInsights
\* while the middleware was started, after unsubscribe()
StaleEvent(event) ==
  /\ phase = "unsubscribed"
  /\ hist.activations > 0
  /\ Buffers => hist.pushes < MaxPushes
  /\ Commit(sendEventToInsights(Enter("staleEvent", event), event))
  /\ UNCHANGED <<cfg, phase>>

WidgetInit ==
  /\ cfg \in Configs
  /\ phase = "pre"
  /\ cookie = Undef
  /\ session = [userToken |-> "u0", clickAnalytics |-> "false", query |-> ""]
  /\ Untouched

WidgetNext ==
  \/ Next
  \/ \E q \in Queries : SetQuery(q)
  \/ \E event \in Events : StaleEvent(event)

WidgetSpec == WidgetInit /\ [][WidgetNext]_vars

----------------------------------------------------------------------------
(* Claims *)

\* C1. When the getUserToken callback has delivered a non-empty token before
\* started() runs, the session's userToken after started() is that token,
\* whatever the queue's token and the anonymous token are.
C1_InitCallbackTokenWins ==
  (eff.op = "started" /\ Truthy(mw.userTokenBeforeInit))
    => session.userToken = mw.userTokenBeforeInit

\* C1's case: started() has run with an init-callback token, a different queued
\* token and an anonymous token all present.
C1_Witness ==
  /\ eff.op = "started"
  /\ Truthy(mw.userTokenBeforeInit)
  /\ Truthy(mw.queuedUserToken)
  /\ mw.queuedUserToken # mw.userTokenBeforeInit
  /\ cookie = Anon

\* the index of the last 'setUserToken' entry of a queue, 0 when it has none
LastSetUserToken(q) ==
  IF \E i \in 1..Len(q) : q[i].method = "setUserToken"
    THEN CHOOSE i \in 1..Len(q) :
           /\ q[i].method = "setUserToken"
           /\ \A j \in (i + 1)..Len(q) : q[j].method # "setUserToken"
    ELSE 0

\* C2. The queued token the factory selects is the payload of the last
\* 'setUserToken' entry of the queue it found; it is undefined when there is no
\* such entry or no queue; and the queue's entries are still there, in order.
C2_QueueScan ==
  eff.op = "construct" =>
    LET q == eff.queueBefore
        i == LastSetUserToken(q)
    IN  /\ mw.queuedUserToken = IF hasQueue /\ i > 0 THEN q[i].arg ELSE Undef
        /\ Len(client.queue) >= Len(q)
        /\ SubSeq(client.queue, 1, Len(q)) = q

\* C2's case: the factory has scanned a queue with two 'setUserToken' entries of
\* different payloads and another call between them.
C2_Witness ==
  /\ eff.op = "construct"
  /\ Len(eff.queueBefore) = 3
  /\ eff.queueBefore[1].method = "setUserToken"
  /\ eff.queueBefore[2].method = "other"
  /\ eff.queueBefore[3].method = "setUserToken"
  /\ eff.queueBefore[1].arg # eff.queueBefore[3].arg
  /\ mw.queuedUserToken = eff.queueBefore[3].arg

\* C3. After started() the session's clickAnalytics is true; after the
\* unsubscribe() that follows a started(), userToken and clickAnalytics are the
\* values the session had immediately before that started().
C3_SnapshotRestore ==
  /\ eff.op = "started" => session.clickAnalytics = "true"
  /\ (eff.op = "unsubscribe" /\ hist.activations > 0) =>
       /\ session.userToken = hist.beforeStarted.userToken
       /\ session.clickAnalytics = hist.beforeStarted.clickAnalytics

\* C3's case: unsubscribe() has run after a started() that found
\* {userToken: 'u0', clickAnalytics: false} and applied an init-callback token,
\* and after a later setUserToken of another token.
C3_Witness ==
  /\ eff.op = "unsubscribe"
  /\ hist.activations > 0
  /\ hist.beforeStarted.userToken = "u0"
  /\ hist.beforeStarted.clickAnalytics = "false"
  /\ Truthy(mw.userTokenBeforeInit)
  /\ Truthy(client.userToken)
  /\ client.userToken # mw.userTokenBeforeInit
  /\ session.userToken = "u0"

\* C4. No write the middleware makes before unsubscribe() notifies: the count of
\* change notifications is 0 until the first unsubscribe(), never exceeds the
\* number of unsubscribe() calls, and no handler but unsubscribe() notifies.
C4_NoNotify ==
  /\ hist.teardowns = 0 => hist.notifications = 0
  /\ hist.notifications <= hist.teardowns
  /\ eff.op # "unsubscribe" => eff.notified = 0

\* C4's case: while started, a setUserToken of the page has been written to the
\* session (one search requested) and nothing has been notified.
C4_Witness ==
  /\ eff.op = "setUserToken"
  /\ phase = "started"
  /\ session.userToken = eff.arg
  /\ eff.searches = 1
  /\ hist.notifications = 0

\* C5. With no onEvent handler, while started: the gateway invokes the analytics
\* client if and only if the event has an insightsMethod and the session's
\* userToken is non-empty at dispatch, and then exactly once with (insightsMethod,
\* payload) and no warning; otherwise it makes no call and reports one warning.
C5_GatewayValidation ==
  (eff.op = "event" /\ phase = "started" /\ ~cfg.onEvent) =>
    /\ eff.handled = <<>>
    /\ IF Truthy(eff.arg.insightsMethod) /\ Truthy(session.userToken)
         THEN /\ eff.calls = <<Call(eff.arg.insightsMethod, eff.arg.payload)>>
              /\ eff.warnings = <<>>
         ELSE /\ eff.calls = <<>>
              /\ Len(eff.warnings) = 1

\* C5's case: an event has been sent under a token that no source gave at
\* started() (the session had none, the middleware found none): the page set it
\* on the client afterwards.
C5_Witness ==
  /\ eff.op = "event"
  /\ phase = "started"
  /\ ~cfg.onEvent
  /\ Len(eff.calls) = 1
  /\ hist.beforeStarted.userToken = Undef
  /\ ~Truthy(mw.userTokenBeforeInit)
  /\ ~Truthy(mw.queuedUserToken)
  /\ session.userToken \in UserTokens

\* C6. With an onEvent handler, while started: every event is handed to the
\* handler exactly once, with the client as the props gave it (null in disabled
\* mode), and the gateway makes no call to the analytics client and reports no
\* warning, whatever the event's insightsMethod and the session's userToken.
C6_OnEventBypass ==
  (eff.op = "event" /\ phase = "started" /\ cfg.onEvent) =>
    /\ eff.handled = <<[event |-> eff.arg, insightsClient |-> cfg.insightsClient]>>
    /\ eff.calls = <<>>
    /\ eff.warnings = <<>>

\* C6's case: in disabled mode, an event without insightsMethod has been handed
\* to onEvent while the session has no userToken.
C6_Witness ==
  /\ eff.op = "event"
  /\ phase = "started"
  /\ cfg.onEvent
  /\ cfg.insightsClient = "null"
  /\ ~Truthy(eff.arg.insightsMethod)
  /\ ~Truthy(session.userToken)
  /\ Len(eff.handled) = 1

\* C7. After unsubscribe() and before a new started(), an event given to the
\* instance's sendEventToInsights slot causes no call to the analytics client, no
\* onEvent call and no warning.
C7_PostTeardownInert ==
  (eff.op = "event" /\ phase = "unsubscribed") =>
    /\ eff.calls = <<>>
    /\ eff.handled = <<>>
    /\ eff.warnings = <<>>

\* C7's case: after started() and unsubscribe(), the slot has been given an event
\* the gateway would have handled.
C7_Witness ==
  /\ eff.op = "event"
  /\ phase = "unsubscribed"
  /\ hist.activations > 0
  /\ Truthy(eff.arg.insightsMethod)
  /\ (cfg.onEvent \/ Truthy(session.userToken))

\* C8 as stated: while started, every setUserToken(t) of the page makes the
\* session's userToken t, unnotified, with one search requested; and started()
\* applies the client's current token to the session when it registers the listener.
C8_Original ==
  /\ (eff.op = "setUserToken" /\ phase = "started") =>
       /\ session.userToken = eff.arg
       /\ eff.searches = 1
       /\ eff.notified = 0
  /\ (eff.op = "started" /\ hasInsightsClient) =>
       session.userToken = client.userToken

\* C8, amended. While started and the analytics client executes calls (an
\* imported client, or the snippet once its script has loaded), every
\* setUserToken(t) of the page makes the session's userToken t, unnotified, with
\* one search requested, and started() leaves the listener registered and the
\* client's current token on the session.  Calls made while the script has not
\* loaded are stored; when the script loads while started, the listener is
\* registered and the client's token is on the session.
C8_RuntimeListener ==
  /\ (eff.op = "setUserToken" /\ phase = "started" /\ client.loaded) =>
       /\ session.userToken = eff.arg
       /\ eff.searches = 1
       /\ eff.notified = 0
  /\ (eff.op = "started" /\ client.loaded) =>
       /\ client.listener
       /\ session.userToken = client.userToken
  /\ (eff.op = "load" /\ phase = "started") =>
       /\ client.listener
       /\ session.userToken = client.userToken

\* C8's case: while started, the loaded client has executed a setUserToken of a
\* token the session did not hold at started().
C8_Witness ==
  /\ eff.op = "setUserToken"
  /\ phase = "started"
  /\ client.loaded
  /\ client.listener
  /\ session.userToken = eff.arg
  /\ mw.userTokenBeforeInit # eff.arg
  /\ mw.queuedUserToken # eff.arg

\* C9 as stated: after unsubscribe() and before a new started(), a token change
\* of the analytics client (a setUserToken of the page, or the script loading
\* and processing the queue) leaves the session's userToken as unsubscribe()
\* restored it and requests no search.
C9_LateTokenChangeInert ==
  (phase = "unsubscribed" /\ eff.op \in {"setUserToken", "load"}) =>
    /\ session.userToken = hist.beforeStarted.userToken
    /\ eff.searches = 0

\* C10 as stated, in the case it singles out: when started() finds no
\* init-callback token, no queued token, no anonymous token (or no client) and
\* the client holds no token either, the session's userToken after started() is
\* the one it had before.
C10_NoSourceKeepsToken ==
  (/\ eff.op = "started"
   /\ ~Truthy(mw.userTokenBeforeInit)
   /\ ~Truthy(mw.queuedUserToken)
   /\ ~(hasInsightsClient /\ Truthy(cookie))
   /\ ~Truthy(client.userToken))
    => session.userToken = hist.beforeStarted.userToken

\* the search-insights script loads in this step
LoadStep == ~client.loaded /\ client'.loaded

NothingDone ==
  /\ eff.calls = <<>>
  /\ eff.searches = 0
  /\ eff.notified = 0
  /\ eff.handled = <<>>
  /\ eff.warnings = <<>>

\* no handler of the middleware has touched the session, the slot or the client
NeverProceeded ==
  /\ session = hist.beforeStarted
  /\ hist.activations = 0
  /\ instance.sendEventToInsights = "noop"
  /\ ~mw.helper

C13_Original ==
  /\ (eff.op = "construct" /\ ~cfg.credentials) =>
       /\ eff.error # "none"
       /\ phase = "failed"
       /\ eff.calls = <<>>
  /\ ~cfg.credentials =>
       /\ phase \in {"new", "pre", "failed"}
       /\ NeverProceeded

\* C13, amended. In a development build, when the credentials cannot be
\* extracted the inner function ends with an error before any call to the
\* analytics client, and the middleware never proceeds: no session parameter
\* changes and no gateway is installed.  In a production build the inner
\* function does not look at them: it issues 'getUserToken' and 'init', and ends
\* with an error exactly when the client executes init at once.
C13_CredentialsFatalInDev ==
  /\ (eff.op = "construct" /\ ~cfg.credentials /\ cfg.dev) =>
       /\ eff.error # "none"
       /\ phase = "failed"
       /\ NothingDone
  /\ (~cfg.credentials /\ cfg.dev) =>
       /\ phase \in {"new", "pre", "failed"}
       /\ NeverProceeded
       /\ mw.userTokenBeforeInit = Undef
  /\ (eff.op = "construct" /\ ~cfg.credentials /\ ~cfg.dev) =>
       /\ eff.calls = <<Call("getUserToken", "callback"), Call("init", Undef)>>
       /\ (phase = "failed") = (hasInsightsClient /\ client.loaded)

\* C13's case: in a development build, the inner function has run with a search
\* client that gives no credentials, the page having set a token before.
C13_Witness ==
  /\ eff.op = "construct"
  /\ ~cfg.credentials
  /\ cfg.dev
  /\ phase = "failed"
  /\ Truthy(client.userToken)

\* C14. started(), unsubscribe(), started() with nothing else in between, the
\* first started() finding the middleware not started: the second started()
\* makes the same calls to the analytics client, the same session writes and
\* search requests as the first, installs the gateway, and ends in the same
\* session state.
C14_IdempotentReconfiguration ==
  (eff.op = "started" /\ hist.replayed) =>
    /\ eff = hist.lastStarted.effects
    /\ session = hist.lastStarted.session
    /\ instance.sendEventToInsights = hist.lastStarted.sendEventToInsights
    /\ instance.sendEventToInsights = "gateway"

\* C14's case: the second started() of such a sequence has run on a client that
\* executes calls, with an anonymous token and an explicit token to apply.
C14_Witness ==
  /\ eff.op = "started"
  /\ hist.replayed
  /\ client.loaded
  /\ Len(eff.calls) = 3
  /\ eff.searches = 3
  /\ session.userToken \in UserTokens

\* C15. With insightsClient null, the session's userToken is never changed by
\* started(), events or unsubscribe(), an anonymous token being persisted or
\* not; started() still sets clickAnalytics to true, and unsubscribe() restores
\* the clickAnalytics the session had before the last started().
C15_DisabledMode ==
  cfg.insightsClient = "null" =>
    /\ session.userToken = hist.beforeStarted.userToken
    /\ session.userToken = hist.beforeActivation.userToken
    /\ ~client.listener
    /\ eff.op = "started" => session.clickAnalytics = "true"
    /\ (eff.op = "unsubscribe" /\ hist.activations > 0) =>
         session.clickAnalytics = hist.beforeStarted.clickAnalytics

\* C15's case: with insightsClient null and an anonymous token persisted, the
\* middleware has been started and unsubscribed, and clickAnalytics is back to
\* a value other than true.
C15_Witness ==
  /\ cfg.insightsClient = "null"
  /\ cookie = Anon
  /\ eff.op = "unsubscribe"
  /\ hist.activations > 0
  /\ session.clickAnalytics = "false"
  /\ session.userToken = "u0"

\* C16 as stated: in every sequence of started() and unsubscribe(), the snapshot
\* started() holds is made of the values the session had before the activation
\* (not of values the middleware wrote), unsubscribe() writes both of them back
\* in one state change, and after unsubscribe() the snapshot no longer exists.
C16_SnapshotDiscipline ==
  /\ eff.op = "started" =>
       /\ mw.initialParameters.set
       /\ mw.initialParameters.userToken = hist.beforeActivation.userToken
       /\ mw.initialParameters.clickAnalytics = hist.beforeActivation.clickAnalytics
  /\ (eff.op = "unsubscribe" /\ hist.activations > 0) =>
       /\ eff.notified = 1
       /\ session.userToken = hist.beforeActivation.userToken
       /\ session.clickAnalytics = hist.beforeActivation.clickAnalytics
  /\ phase = "unsubscribed" => ~mw.initialParameters.set

\* C17. Whenever the getUserToken callback delivers a token t: before started(),
\* the session's userToken after started() is t, whatever the queue's token;
\* after started() (the script loads while started and processes the queue, t
\* being still the last token the queue sets), the session's userToken is t
\* when the queue has been processed.
C17_CallbackTiming ==
  /\ []((eff.op = "started" /\ Truthy(mw.userTokenBeforeInit))
         => session.userToken = mw.userTokenBeforeInit)
  /\ [][(/\ LoadStep
          /\ phase = "started"
          /\ ~Truthy(mw.userTokenBeforeInit)
          /\ Truthy(mw'.userTokenBeforeInit)
          /\ client.queue[LastSetUserToken(client.queue)].arg
               = mw'.userTokenBeforeInit)
         => session'.userToken = mw'.userTokenBeforeInit]_vars

\* C17's case: started() ran before the callback; the script has now loaded, the
\* callback has delivered its token, init has set the anonymous token after
\* it, and the queue has been processed to its end.
C17_Witness ==
  /\ eff.op = "load"
  /\ phase = "started"
  /\ cfg.useCookie
  /\ hist.activations > 0
  /\ Truthy(mw.userTokenBeforeInit)
  /\ session.userToken = mw.userTokenBeforeInit

\* C18 as stated: one started() requests exactly one search.
C18_Original ==
  eff.op = "started" => eff.searches = 1

\* C18, amended. One started() requests one search after each write to the
\* session it causes: one for clickAnalytics, one more when it applies the
\* anonymous token, one more when the client executes the registration of the
\* listener (the immediate delivery), and one more when the middleware was
\* already started and the client executes the setUserToken of an explicit
\* token (the listener of the earlier started() fires).
C18_SearchPerWrite ==
  eff.op = "started" =>
    eff.searches =
      1
      + (IF hasInsightsClient /\ Truthy(cookie) THEN 1 ELSE 0)
      + (IF hasInsightsClient /\ client.loaded THEN 1 ELSE 0)
      + (IF /\ hasInsightsClient /\ client.loaded
            /\ ~hist.replayable
            /\ (Truthy(mw.userTokenBeforeInit) \/ Truthy(mw.queuedUserToken))
           THEN 1 ELSE 0)

\* C18's case: a started() with an anonymous token and an explicit token on a
\* client that executes calls, the middleware being started already.
C18_Witness ==
  /\ eff.op = "started"
  /\ ~hist.replayable
  /\ eff.searches > 3

\* C19 as stated: the gateway a widget read from the slot while the middleware
\* was started, called after unsubscribe(), makes no call to the analytics
\* client and no onEvent call.
C19_StaleGatewayInert ==
  eff.op = "staleEvent" =>
    /\ eff.calls = <<>>
    /\ eff.handled = <<>>

\* C20. No handler of the middleware changes a session parameter other than
\* userToken and clickAnalytics: the query changes only when the user changes
\* it, and keeps the user's value through started(), every token application
\* and unsubscribe().
C20_FrameOtherParameters ==
  [][session'.query # session.query => eff'.op = "setQuery"]_vars

\* C20's case: the user changed the query while the middleware was started, and
\* unsubscribe() has restored userToken and clickAnalytics after a token had
\* been applied.
C20_Witness ==
  /\ eff.op = "unsubscribe"
  /\ eff.notified = 1
  /\ hist.activations > 0
  /\ session.query = "shoes"
  /\ session.userToken = "u0"
  /\ session.clickAnalytics = "false"
  /\ Truthy(client.userToken)

====
